---- MODULE Spec2Model ----
(***************************************************************************)
(* A model of the pixelator (src/src/App.jsx): the pixel pipeline          *)
(* (applyContrast, quantizeColors, applyColorMapping, getColorStats), the  *)
(* orchestrator applyEffects and the App component's state and handlers.   *)
(*                                                                         *)
(* Numbers.  Channel values are the integers 0..255 of a                   *)
(* Uint8ClampedArray.  A contrast factor is held in tenths (5..20 for the  *)
(* slider's 0.5..2.0).  Every store into a Uint8ClampedArray rounds to the *)
(* nearest integer with exact halves going to the even integer and clamps  *)
(* to 0..255 (ToUint8Clamp); Math.round rounds exact halves up.            *)
(* Strings are TLA+ strings; buffers are objects of a heap, so that        *)
(* aliasing and in-place writes are visible.                               *)
(***************************************************************************)
EXTENDS Integers, Sequences, FiniteSets, TLC

\* The number NaN (of parseInt, of 0 * Infinity): an integer no computation
\* of the model yields otherwise
NaN == -99999

(***************************************************************************)
(* Arithmetic of the JavaScript runtime                                    *)
(***************************************************************************)

\* floor(num / den) for den > 0 (Integers' \div rounds towards minus infinity)
Floor(num, den) == num \div den

\* Math.round(num / den), den > 0: nearest integer, exact halves up
MathRound(num, den) == Floor(2 * num + den, 2 * den)

\* The conversion of a store into a Uint8ClampedArray, applied to the number
\* num / den (den > 0): clamp to 0..255, round to nearest, an exact half to
\* the even neighbour.  skew is the sign of (double value - num/den) where
\* the double computation is not exact: it decides an apparent half.
ToUint8Clamp(num, den, skew) ==
    IF num <= 0 THEN 0
    ELSE IF num >= 255 * den THEN 255
    ELSE LET f == Floor(num, den)
             r == 2 * (num - f * den)
         IN  IF r > den THEN f + 1
             ELSE IF r < den THEN f
             ELSE IF skew > 0 THEN f + 1
             ELSE IF skew < 0 THEN f
             ELSE IF f % 2 = 0 THEN f ELSE f + 1

\* A store of a value that may be NaN: NaN is stored as 0
StoreByte(x) == IF x = NaN THEN 0 ELSE ToUint8Clamp(x, 1, 0)

(***************************************************************************)
(* Strings: r.toString(16).padStart(2,'0'), substr, parseInt(s, 16)        *)
(***************************************************************************)

HexDigits == <<"0", "1", "2", "3", "4", "5", "6", "7",
               "8", "9", "a", "b", "c", "d", "e", "f">>

UpperHexDigits == <<"0", "1", "2", "3", "4", "5", "6", "7",
                    "8", "9", "A", "B", "C", "D", "E", "F">>

\* v.toString(16).padStart(2, '0') for v in 0..255
Hex2(v) == HexDigits[(v \div 16) + 1] \o HexDigits[(v % 16) + 1]

\* `#${r.toString(16).padStart(2,'0')}${g...}${b...}`
ColorKey(r, g, b) == "#" \o Hex2(r) \o Hex2(g) \o Hex2(b)

\* s.substr(start, len): at most len characters from 0-based index start
Substr(s, start, len) ==
    IF start >= Len(s) THEN ""
    ELSE SubSeq(s, start + 1, IF start + len > Len(s) THEN Len(s) ELSE start + len)

\* the value of a hexadecimal digit, or NaN
HexVal(c) ==
    IF \E i \in 1..16 : HexDigits[i] = c
    THEN (CHOOSE i \in 1..16 : HexDigits[i] = c) - 1
    ELSE IF \E i \in 1..16 : UpperHexDigits[i] = c
    THEN (CHOOSE i \in 1..16 : UpperHexDigits[i] = c) - 1
    ELSE NaN

CharAt(s, i) == SubSeq(s, i, i)

\* the digits of parseInt: the longest prefix of hexadecimal digits of s from
\* position i on, read as a number; NaN when there is none
RECURSIVE HexPrefix(_, _, _)
HexPrefix(s, i, acc) ==
    IF i > Len(s) \/ HexVal(CharAt(s, i)) = NaN
    THEN acc
    ELSE HexPrefix(s, i + 1, (IF acc = NaN THEN 0 ELSE acc * 16) + HexVal(CharAt(s, i)))

\* parseInt(s, 16): leading blanks are skipped, then an optional sign, then an
\* optional 0x / 0X, then the longest prefix of hexadecimal digits
RECURSIVE SkipBlanks(_, _)
SkipBlanks(s, i) ==
    IF i <= Len(s) /\ CharAt(s, i) = " " THEN SkipBlanks(s, i + 1) ELSE i

ParseInt16(s) ==
    LET i0   == SkipBlanks(s, 1)
        neg  == i0 <= Len(s) /\ CharAt(s, i0) = "-"
        i1   == IF i0 <= Len(s) /\ CharAt(s, i0) \in {"-", "+"} THEN i0 + 1 ELSE i0
        i2   == IF i1 + 1 <= Len(s) /\ CharAt(s, i1) = "0" /\ CharAt(s, i1 + 1) \in {"x", "X"}
                THEN i1 + 2 ELSE i1
        n    == HexPrefix(s, i2, NaN)
    IN  IF n = NaN THEN NaN ELSE IF neg THEN 0 - n ELSE n

(***************************************************************************)
(* Pixels and buffers.  A pixel is <<r, g, b, a>>; an ImageData is         *)
(* [width, height, data], data the row-major sequence of its pixels.       *)
(***************************************************************************)

Pixel(r, g, b, a) == <<r, g, b, a>>

ImageData(data, width, height) == [width |-> width, height |-> height, data |-> data]

\* no object at an address
NoBuf == [width |-> 0, height |-> 0, data |-> <<>>]

\* `${data[index]},${data[index + 1]},${data[index + 2]}`: the decimal form
Digits == <<"0", "1", "2", "3", "4", "5", "6", "7", "8", "9">>

Dec(v) ==
    IF v < 10 THEN Digits[v + 1]
    ELSE IF v < 100 THEN Digits[(v \div 10) + 1] \o Digits[(v % 10) + 1]
    ELSE Digits[(v \div 100) + 1] \o Digits[((v \div 10) % 10) + 1] \o Digits[(v % 10) + 1]

\* countUniqueColors: the size of the Set of "r,g,b" strings of the pixels
countUniqueColors(pixelData) ==
    Cardinality({ Dec(pixelData.data[i][1]) \o "," \o Dec(pixelData.data[i][2])
                    \o "," \o Dec(pixelData.data[i][3]) :
                  i \in 1..(pixelData.width * pixelData.height) })

(***************************************************************************)
(* applyContrast                                                           *)
(***************************************************************************)

\* The double product (v - 128) * contrast is not the real product when the
\* factor is not a binary fraction.  For all v in 0..255 and the factors
\* 0.5, 0.6, ..., 2.0 the stored byte differs from the one of the real value
\* in two places only: 1.1 is the double 1.100000000000000088..., and
\* (13 - 128) * 1.1 = -126.50000000000001, (33 - 128) * 1.1 =
\* -104.50000000000001, so the sums 1.4999999999999858 and 23.499999999999986
\* lie below the half the real value sits on.
ContrastSkew(v, contrast) == IF contrast = 11 /\ v \in {13, 33} THEN -1 ELSE 0

\* A contrast that rounds with Math.round before the store (exact halves up)
ContrastChannelHalfUp(v, contrast) ==
    LET x  == (v - 128) * contrast + 1280
        mx == IF x < 0 THEN 0 ELSE x
        mn == IF mx > 2550 THEN 2550 ELSE mx
    IN  MathRound(mn, 10)

\* Math.min(255, Math.max(0, ((v - 128) * contrast) + 128)) stored into the
\* Uint8ClampedArray (lines 44-46); contrast in tenths, the value in tenths too
ContrastChannel(v, contrast) ==
    LET x  == (v - 128) * contrast + 1280
        mx == IF x < 0 THEN 0 ELSE x
        mn == IF mx > 2550 THEN 2550 ELSE mx
    IN  ToUint8Clamp(mn, 10, ContrastSkew(v, contrast))

ContrastPixel(p, contrast) ==
    Pixel(ContrastChannel(p[1], contrast), ContrastChannel(p[2], contrast),
          ContrastChannel(p[3], contrast), p[4])

(***************************************************************************)
(* quantizeColors                                                          *)
(***************************************************************************)

\* Math.round(Math.pow(targetColors, 1 / 3)) for targetColors >= 1: the l with
\* l - 1/2 <= cbrt(t) < l + 1/2, that is (2l - 1)^3 <= 8t < (2l + 1)^3
RECURSIVE LevelsFrom(_, _)
LevelsFrom(targetColors, l) ==
    IF 8 * targetColors < (2 * l + 1) * (2 * l + 1) * (2 * l + 1)
    THEN l
    ELSE LevelsFrom(targetColors, l + 1)

Levels(targetColors) == LevelsFrom(targetColors, 0)

\* A quantizer that snaps down (Math.floor in place of Math.round)
QuantizeChannelFloor(v, targetColors) ==
    LET levels == Levels(targetColors)
    IN  IF levels = 1
        THEN StoreByte(NaN)
        ELSE ToUint8Clamp(255 * Floor(v * (levels - 1), 255), levels - 1, 0)

\* Math.round(v / step) * step stored into the Uint8ClampedArray (lines
\* 64-66), with step = 255 / (levels - 1).  With levels = 1 the step is
\* Infinity, v / Infinity is 0 and 0 * Infinity is NaN, stored as 0.
QuantizeChannel(v, targetColors) ==
    LET levels == Levels(targetColors)
    IN  IF levels = 1
        THEN StoreByte(NaN)
        ELSE ToUint8Clamp(255 * MathRound(v * (levels - 1), 255), levels - 1, 0)

\* A quantizer that also writes the alpha byte
QuantizePixelOpaque(p, targetColors) ==
    Pixel(QuantizeChannel(p[1], targetColors), QuantizeChannel(p[2], targetColors),
          QuantizeChannel(p[3], targetColors), 255)

\* lines 64-66: data[i], data[i + 1], data[i + 2]; data[i + 3] stays the copy
QuantizePixel(p, targetColors) ==
    Pixel(QuantizeChannel(p[1], targetColors), QuantizeChannel(p[2], targetColors),
          QuantizeChannel(p[3], targetColors), p[4])

(***************************************************************************)
(* applyColorMapping                                                       *)
(***************************************************************************)

\* A colour mapping is a function from key strings to target strings.
EmptyMapping == [k \in {} |-> ""]

\* colorMapping[currentColor] is truthy: the key is there, its value not ""
Mapped(colorMapping, currentColor) ==
    currentColor \in DOMAIN colorMapping /\ colorMapping[currentColor] # ""

\* the target of an entry as lines 108-113 read it
TargetPixel(newColor, a) ==
    Pixel(StoreByte(ParseInt16(Substr(newColor, 1, 2))),
          StoreByte(ParseInt16(Substr(newColor, 3, 2))),
          StoreByte(ParseInt16(Substr(newColor, 5, 2))), a)

\* A remapper that looks the target up again
MapPixelChained(p, colorMapping) ==
    LET currentColor == ColorKey(p[1], p[2], p[3])
        once == IF Mapped(colorMapping, currentColor)
                THEN TargetPixel(colorMapping[currentColor], p[4]) ELSE p
        nextColor == ColorKey(once[1], once[2], once[3])
    IN  IF Mapped(colorMapping, nextColor)
        THEN TargetPixel(colorMapping[nextColor], p[4]) ELSE once

\* the pixel after lines 103-118
MapPixel(p, colorMapping) ==
    LET currentColor == ColorKey(p[1], p[2], p[3])
    IN  IF Mapped(colorMapping, currentColor)
        THEN LET newColor == colorMapping[currentColor]
                 newR == ParseInt16(Substr(newColor, 1, 2))
                 newG == ParseInt16(Substr(newColor, 3, 2))
                 newB == ParseInt16(Substr(newColor, 5, 2))
             IN  Pixel(StoreByte(newR), StoreByte(newG), StoreByte(newB), p[4])
        ELSE p

(***************************************************************************)
(* getColorStats                                                           *)
(***************************************************************************)

\* the keys of colorCounts in insertion order, with their counts, after the
\* scan of pixels i..n
RECURSIVE CountColors(_, _, _)
CountColors(data, i, acc) ==
    IF i > Len(data) THEN acc
    ELSE LET color == ColorKey(data[i][1], data[i][2], data[i][3])
             at    == { j \in 1..Len(acc) : acc[j].color = color }
         IN  IF at = {}
             THEN CountColors(data, i + 1, Append(acc, [color |-> color, count |-> 1]))
             ELSE CountColors(data, i + 1,
                              [acc EXCEPT ![CHOOSE j \in at : TRUE].count = @ + 1])

\* A sort that puts an entry in front of the entries of the same count
InsertByCountBefore(sorted, e) ==
    LET before == { j \in 1..Len(sorted) : sorted[j].count > e.count }
        k      == IF before = {} THEN 0 ELSE CHOOSE j \in before : \A x \in before : x <= j
    IN  SubSeq(sorted, 1, k) \o <<e>> \o SubSeq(sorted, k + 1, Len(sorted))

\* Array.prototype.sort with (a, b) => b.count - a.count: a stable sort,
\* here by insertion: an entry goes behind every entry that is not smaller
InsertByCount(sorted, e) ==
    LET before == { j \in 1..Len(sorted) : sorted[j].count >= e.count }
        k      == IF before = {} THEN 0 ELSE CHOOSE j \in before : \A x \in before : x <= j
    IN  SubSeq(sorted, 1, k) \o <<e>> \o SubSeq(sorted, k + 1, Len(sorted))

RECURSIVE SortByCount(_, _, _)
SortByCount(entries, i, acc) ==
    IF i > Len(entries) THEN acc
    ELSE SortByCount(entries, i + 1, InsertByCount(acc, entries[i]))

\* A scan that starts at the second pixel
getColorStatsFromOne(pixelData) ==
    SortByCount(CountColors(SubSeq(pixelData.data, 2, pixelData.width * pixelData.height),
                            1, <<>>), 1, <<>>)

\* getColorStats, lines 73-91
getColorStats(pixelData) ==
    SortByCount(CountColors(SubSeq(pixelData.data, 1, pixelData.width * pixelData.height),
                            1, <<>>), 1, <<>>)

(***************************************************************************)
(* The heap of ImageData objects.  A reference is an address; NullRef is   *)
(* null.  new ImageData(...) takes the lowest free address.                *)
(***************************************************************************)

\* pending setTimeout callbacks the model lets coexist
MaxTimers == 1

NullRef == 0

\* the objects that can exist within one step: the base buffer, the
\* displayed buffer, a new base buffer, the three buffers of each of the two
\* runs a step can make, one base buffer per timer
Addr == 1..(MaxTimers + 9)

EmptyHeap == [a \in Addr |-> NoBuf]

FreeAddr(h) == CHOOSE a \in Addr : h[a] = NoBuf /\ \A b \in Addr : h[b] = NoBuf => a <= b

\* new ImageData(newData, width, height)
NewImageData(h, data, width, height) ==
    [heap |-> [h EXCEPT ![FreeAddr(h)] = ImageData(data, width, height)],
     ref  |-> FreeAddr(h)]

\* A contrast that writes into pixelData.data itself
applyContrastInPlace(h, pixelData, contrast) ==
    LET src     == h[pixelData]
        newData == [i \in 1..Len(src.data) |-> ContrastPixel(src.data[i], contrast)]
    IN  NewImageData([h EXCEPT ![pixelData].data = newData], newData, src.width, src.height)

\* applyContrast, lines 38-50: newData is a copy of pixelData.data
applyContrast(h, pixelData, contrast) ==
    LET src     == h[pixelData]
        newData == [i \in 1..Len(src.data) |-> ContrastPixel(src.data[i], contrast)]
    IN  NewImageData(h, newData, src.width, src.height)

\* quantizeColors, lines 53-70
quantizeColors(h, pixelData, targetColors) ==
    LET src     == h[pixelData]
        newData == [i \in 1..Len(src.data) |-> QuantizePixel(src.data[i], targetColors)]
    IN  NewImageData(h, newData, src.width, src.height)

\* applyColorMapping, lines 94-122: an empty mapping returns pixelData itself
applyColorMapping(h, pixelData, colorMapping) ==
    IF DOMAIN colorMapping = {}
    THEN [heap |-> h, ref |-> pixelData]
    ELSE LET src     == h[pixelData]
             newData == [i \in 1..Len(src.data) |-> MapPixel(src.data[i], colorMapping)]
         IN  NewImageData(h, newData, src.width, src.height)

\* The mapping object after applyColorMapping: lines 94-122 read colorMapping
\* and assign to no property of it
MappingAfter(colorMapping) == colorMapping

(***************************************************************************)
(* The state of the application: the state of App (lines 420-435), the     *)
(* localStorage item, the callbacks that are pending, and what the hooks'  *)
(* closures captured.                                                      *)
(***************************************************************************)

VARIABLES
    heap,                \* the ImageData objects
    originalImage,       \* [kind, img]: none, a decoded image, a JSON project
    pixelData,           \* reference: the displayed buffer
    originalPixelData,   \* reference: the base buffer
    dimensions,          \* [width, height]
    sizeMode,            \* "height" or "width"
    sizeValue,
    isProcessing,
    colorCount,
    maxColors,
    contrast,            \* in tenths
    colorMapping,
    currentColors,       \* the palette: sequence of [color, count]
    storage,             \* localStorage 'pixelator-color-mapping': << >> or <<mapping>>
    timers,              \* snapshots of the applyEffects closures passed to setTimeout
    loading,             \* images being decoded: [img, sizeMode, sizeValue] of the closure
    capturedColorCount,  \* colorCount as captured by the handleSizeChange of a JSON
                         \* project (deps of line 593; read at line 563 only), else 0
    runs,                \* the latest run of applyEffects, by value (RunRecord)
    memo,                \* an earlier run of applyEffects, by value
    probe                \* a stage applied to one pixel: what went in, what came out

vars == << heap, originalImage, pixelData, originalPixelData, dimensions, sizeMode,
           sizeValue, isProcessing, colorCount, maxColors, contrast, colorMapping,
           currentColors, storage, timers, loading, capturedColorCount, runs, memo,
           probe >>

(***************************************************************************)
(* applyEffects, lines 596-619.  A snapshot is what the closure captured:  *)
(* [base, contrast, colorCount, maxColors, colorMapping], base a reference.*)
(***************************************************************************)

\* one stage's call as seen from outside: what it was given, what that
\* object holds afterwards, what it returned, and whether every address it
\* wrote was free before the call
Step(stage, h, input, res) ==
    [stage     |-> stage,
     inBefore  |-> h[input],
     inAfter   |-> res.heap[input],
     out       |-> res.heap[res.ref],
     aliased   |-> res.ref = input,
     ownWrites |-> \A a \in Addr : res.heap[a] # h[a] => h[a] = NoBuf]

\* the one element of a singleton
Only(S) == CHOOSE x \in S : TRUE

\* A run that goes on from the displayed buffer
EffectsInputShown(snap) == IF pixelData # NullRef THEN pixelData ELSE snap.base

\* let processedData = originalPixelData (line 599)
EffectsInput(snap) == snap.base

\* lines 614-618: the statistics of the last buffer, and what the run
\* returns through setCurrentColors and setPixelData.  s0 is processedData at
\* line 599, s1 after lines 602-604, s2 after lines 607-609, s3 after line 612.
Analyzed(snap, s0, s1, s2, s3) ==
    [heap          |-> s3.heap,
     pixelData     |-> s3.ref,
     currentColors |-> getColorStats(s3.heap[s3.ref]),
     steps |-> (IF snap.contrast # 10
                THEN <<Step("contrast", s0.heap, s0.ref, s1)>> ELSE << >>)
               \o (IF snap.colorCount < snap.maxColors
                   THEN <<Step("quantize", s1.heap, s1.ref, s2)>> ELSE << >>)
               \o <<Step("remap", s2.heap, s2.ref, s3)>>]

\* A run that remaps the colours of the base buffer
RemappedBase(snap, s0, s1, s2) ==
    Only({ Analyzed(snap, s0, s1, s2, s3) :
           s3 \in {applyColorMapping(s2.heap, s0.ref, snap.colorMapping)} })

\* line 612
Remapped(snap, s0, s1, s2) ==
    Only({ Analyzed(snap, s0, s1, s2, s3) :
           s3 \in {applyColorMapping(s2.heap, s2.ref, snap.colorMapping)} })

\* A run that quantizes whatever maxColors is
QuantizedAlways(snap, s0, s1) ==
    Only({ Remapped(snap, s0, s1, s2) :
           s2 \in {quantizeColors(s1.heap, s1.ref, snap.colorCount)} })

\* lines 607-609
Quantized(snap, s0, s1) ==
    Only({ Remapped(snap, s0, s1, s2) :
           s2 \in {IF snap.colorCount < snap.maxColors
                   THEN quantizeColors(s1.heap, s1.ref, snap.colorCount) ELSE s1} })

\* lines 602-604
Contrasted(snap, s0) ==
    Only({ Quantized(snap, s0, s1) :
           s1 \in {IF snap.contrast # 10
                   THEN applyContrast(s0.heap, s0.ref, snap.contrast) ELSE s0} })

applyEffects(h, snap) ==
    Only({ Contrasted(snap, s0) : s0 \in {[heap |-> h, ref |-> EffectsInput(snap)]} })

\* What one run of applyEffects did, by value
RunRecord(h, snap, res) ==
    [base          |-> h[snap.base],
     baseAfter     |-> res.heap[snap.base],
     contrast      |-> snap.contrast,
     colorCount    |-> snap.colorCount,
     maxColors     |-> snap.maxColors,
     colorMapping  |-> snap.colorMapping,
     mappingAfter  |-> MappingAfter(snap.colorMapping),
     steps         |-> res.steps,
     out           |-> res.heap[res.pixelData],
     currentColors |-> res.currentColors]

(***************************************************************************)
(* Inputs: the image files, the project files, the values typed or picked. *)
(***************************************************************************)

\* the values the model types into the size input
SizeInputs == {1}

\* Decoded images (img.width, img.height and the raster drawImage reads)
Images ==
    << ImageData(<< Pixel(0, 0, 0, 255),       Pixel(255, 255, 255, 255),
                    Pixel(100, 100, 100, 255), Pixel(200, 200, 200, 255) >>, 2, 2),
       ImageData(<< Pixel(0, 0, 0, 255), Pixel(255, 0, 0, 128), Pixel(1, 129, 13, 0),
                    Pixel(60, 130, 200, 255), Pixel(191, 255, 127, 7) >>, 1, 5) >>

\* The contrast slider (min 0.5, max 2.0, step 0.1), in tenths
SliderContrasts == 5..20

\* the slider positions the model moves the contrast slider to
ContrastInputs == {5, 10}

\* texts typed into the palette editor
TargetInputs == {"#ff0000", "red"}

\* palette colours the model edits
EditInputs == {"#000000"}

\* Project files: what JSON.parse(text) yields.  A setting that is absent or
\* falsy is 0, "" or has its flag FALSE.
NoSettings ==
    [sizeMode |-> "", sizeValue |-> 0, colorCount |-> 0, maxColors |-> 0, contrast |-> 0,
     hasDimensions |-> FALSE, dimensions |-> [width |-> 0, height |-> 0],
     hasColorMapping |-> FALSE, colorMapping |-> EmptyMapping]

Projects ==
    << \* an exported project: two pixels left of a six-colour image
       [parses |-> TRUE, pixelatorProject |-> TRUE, hasPixels |-> TRUE, hasSettings |-> TRUE,
        settings |-> [sizeMode |-> "width", sizeValue |-> 1, colorCount |-> 4, maxColors |-> 6,
                      contrast |-> 5, hasDimensions |-> TRUE,
                      dimensions |-> [width |-> 2, height |-> 1],
                      hasColorMapping |-> TRUE,
                      colorMapping |-> [k \in {"#000000", "#ff0000"} |->
                                           IF k = "#000000" THEN "#ff0000" ELSE "#0000FF"]],
        width |-> 2, height |-> 1,
        pixels |-> << << Pixel(0, 0, 0, 255), Pixel(255, 0, 0, 255) >> >>],
       \* a project without settings
       [parses |-> TRUE, pixelatorProject |-> TRUE, hasPixels |-> TRUE, hasSettings |-> FALSE,
        settings |-> NoSettings, width |-> 2, height |-> 2,
        pixels |-> << << Pixel(0, 0, 0, 255),       Pixel(255, 255, 255, 255) >>,
                      << Pixel(100, 100, 100, 255), Pixel(200, 200, 200, 255) >> >>],
       \* a pixels array with fewer rows than height
       [parses |-> TRUE, pixelatorProject |-> TRUE, hasPixels |-> TRUE, hasSettings |-> TRUE,
        settings |-> [NoSettings EXCEPT !.contrast = 5, !.sizeMode = "width"],
        width |-> 1, height |-> 2,
        pixels |-> << << Pixel(9, 9, 9, 255) >> >>],
       \* JSON of something else
       [parses |-> TRUE, pixelatorProject |-> FALSE, hasPixels |-> FALSE, hasSettings |-> FALSE,
        settings |-> NoSettings, width |-> 0, height |-> 0, pixels |-> << >>],
       \* not JSON
       [parses |-> FALSE, pixelatorProject |-> FALSE, hasPixels |-> FALSE, hasSettings |-> FALSE,
        settings |-> NoSettings, width |-> 0, height |-> 0, pixels |-> << >>] >>

(***************************************************************************)
(* pixelizeImage, lines 5-19: drawImage without smoothing onto a canvas of *)
(* targetWidth x targetHeight, then getImageData of it.                    *)
(***************************************************************************)

\* getImageData(0, 0, sw, sh) throws IndexSizeError when sw or sh is 0
PixelizeThrows(targetWidth, targetHeight) == targetWidth <= 0 \/ targetHeight <= 0

\* nearest-neighbour sampling: target pixel (x, y) reads the source pixel
\* under its centre
PixelizeData(img, targetWidth, targetHeight) ==
    [i \in 1..(targetWidth * targetHeight) |->
        LET x  == (i - 1) % targetWidth
            y  == (i - 1) \div targetWidth
            sx == Floor((2 * x + 1) * img.width, 2 * targetWidth)
            sy == Floor((2 * y + 1) * img.height, 2 * targetHeight)
        IN  img.data[sy * img.width + sx + 1]]

pixelizeImage(h, img, targetWidth, targetHeight) ==
    NewImageData(h, PixelizeData(img, targetWidth, targetHeight), targetWidth, targetHeight)

\* images whose decoding the model lets be pending at once
MaxLoading == 1

\* the colour-count slider positions the model picks
ColorCountInputs == {2, 4}

NoImage == [kind |-> "none", img |-> 0]

Init ==
    /\ heap = EmptyHeap
    /\ originalImage = NoImage
    /\ pixelData = NullRef
    /\ originalPixelData = NullRef
    /\ dimensions = [width |-> 50, height |-> 50]
    /\ sizeMode = "height"
    /\ sizeValue = 50
    /\ isProcessing = FALSE
    /\ colorCount = 256
    /\ maxColors = 256
    /\ contrast = 10
    /\ storage = << >>
    /\ colorMapping = IF storage = << >> THEN EmptyMapping ELSE storage[1]
    /\ currentColors = << >>
    /\ timers = << >>
    /\ loading = << >>
    /\ capturedColorCount = 0
    /\ runs = << >>
    /\ memo = << >>
    /\ probe = << >>

\* what the applyEffects of the current render captured (deps of line 619)
CurSnap ==
    [base |-> originalPixelData, contrast |-> contrast, colorCount |-> colorCount,
     maxColors |-> maxColors, colorMapping |-> colorMapping]

\* The state a handler starts from.  mappingSet: setColorMapping was called
\* (with a new object); imageSet: setOriginalImage was called.
Cur ==
    [heap |-> heap, originalImage |-> originalImage, pixelData |-> pixelData,
     originalPixelData |-> originalPixelData, dimensions |-> dimensions,
     sizeMode |-> sizeMode, sizeValue |-> sizeValue, isProcessing |-> isProcessing,
     colorCount |-> colorCount, maxColors |-> maxColors, contrast |-> contrast,
     colorMapping |-> colorMapping, currentColors |-> currentColors,
     storage |-> storage, timers |-> timers, loading |-> loading,
     mappingSet |-> FALSE, imageSet |-> FALSE]

(***************************************************************************)
(* Garbage: after a step the objects nothing refers to are gone, and the   *)
(* live ones are renumbered in the order base, displayed, timers.          *)
(***************************************************************************)

Roots(orig, pix, tms) == <<orig, pix>> \o [i \in 1..Len(tms) |-> tms[i].base]

FirstAt(a, roots) == CHOOSE i \in 1..Len(roots) : roots[i] = a /\ \A j \in 1..(i - 1) : roots[j] # a

Renamed(a, roots) ==
    IF a = NullRef THEN NullRef
    ELSE Cardinality({ roots[j] : j \in 1..FirstAt(a, roots) } \ {NullRef})

Compact(h, roots) ==
    LET live == { roots[j] : j \in 1..Len(roots) } \ {NullRef}
    IN  [b \in Addr |->
            IF \E a \in live : Renamed(a, roots) = b
            THEN h[CHOOSE a \in live : Renamed(a, roots) = b]
            ELSE NoBuf]

(***************************************************************************)
(* The end of a step: React renders with the state the handler set, and    *)
(* the effect of lines 622-626 runs applyEffects when originalPixelData or *)
(* applyEffects (one of its five deps) changed.                            *)
(***************************************************************************)

\* the result of no run: what the handler left
NoRun(n) ==
    [heap |-> n.heap, pixelData |-> n.pixelData, currentColors |-> n.currentColors,
     steps |-> << >>]

Commit(set) ==
    \E n \in {set} :
    \E snap \in {[base |-> n.originalPixelData, contrast |-> n.contrast,
                  colorCount |-> n.colorCount, maxColors |-> n.maxColors,
                  colorMapping |-> n.colorMapping]} :
    \E effect \in {/\ n.originalPixelData # NullRef
                   /\ \/ n.originalPixelData # originalPixelData
                      \/ n.colorCount # colorCount
                      \/ n.maxColors # maxColors
                      \/ n.contrast # contrast
                      \/ n.mappingSet} :
    \E res \in {IF effect THEN applyEffects(n.heap, snap) ELSE NoRun(n)} :
    \E roots \in {Roots(n.originalPixelData, res.pixelData, n.timers)} :
        /\ heap' = Compact(res.heap, roots)
        /\ originalPixelData' = Renamed(n.originalPixelData, roots)
        /\ pixelData' = Renamed(res.pixelData, roots)
        /\ timers' = [i \in 1..Len(n.timers) |->
                        [n.timers[i] EXCEPT !.base = Renamed(n.timers[i].base, roots)]]
        /\ currentColors' = res.currentColors
        /\ UNCHANGED <<runs, memo, probe>>
        /\ originalImage' = n.originalImage
        /\ dimensions' = n.dimensions
        /\ sizeMode' = n.sizeMode
        /\ sizeValue' = n.sizeValue
        /\ isProcessing' = n.isProcessing
        /\ colorCount' = n.colorCount
        /\ maxColors' = n.maxColors
        /\ contrast' = n.contrast
        /\ colorMapping' = n.colorMapping
        /\ storage' = n.storage
        /\ loading' = n.loading
        /\ capturedColorCount' =
              IF n.originalImage.kind # "json" THEN 0
              ELSE IF n.imageSet \/ n.sizeMode # sizeMode \/ n.sizeValue # sizeValue
              THEN n.colorCount ELSE capturedColorCount

\* a call of the applyEffects of the current render from inside a handler
\* (lines 153, 284) or of a captured one from a timer: it sets
\* currentColors and pixelData (lines 616, 618)
CallApplyEffects(n, snap) ==
    IF snap.base = NullRef
    THEN n
    ELSE Only({ [n EXCEPT !.heap = res.heap, !.pixelData = res.pixelData,
                          !.currentColors = res.currentColors] :
                res \in {applyEffects(n.heap, snap)} })

(***************************************************************************)
(* The handlers                                                            *)
(***************************************************************************)

Min(a, b) == IF a < b THEN a ELSE b

Max(a, b) == IF a > b THEN a ELSE b

\* The model's user acts when no image is being decoded and fewer than
\* MaxTimers callbacks are pending.
Idle == loading = << >> /\ Len(timers) < MaxTimers

\* the <select> of lines 744-751
SetSizeMode(m) ==
    /\ Idle
    /\ m # sizeMode
    /\ Commit([Cur EXCEPT !.sizeMode = m])

\* the size input, line 765: parseInt(e.target.value) || 1
SetSizeValue(v) ==
    /\ Idle
    /\ v # sizeValue
    /\ Commit([Cur EXCEPT !.sizeValue = v])

\* handleFileUpload with an image file, lines 496-550, up to img.src = ...:
\* the onload callback keeps the sizeMode and sizeValue of this render
UploadImage(i) ==
    /\ Len(loading) < MaxLoading
    /\ Len(timers) < MaxTimers
    /\ sizeValue \in SizeInputs
    /\ Commit([Cur EXCEPT !.isProcessing = TRUE,
                          !.loading = Append(loading, [img |-> i, sizeMode |-> sizeMode,
                                                       sizeValue |-> sizeValue])])

\* handleFileUpload with a file of type image/... that does not decode:
\* onload is never called, and there is no onerror
UploadBrokenImage ==
    /\ Idle
    /\ ~isProcessing
    /\ Commit([Cur EXCEPT !.isProcessing = TRUE])

\* Math.round(a * (num / den)) of lines 525, 528, 576, 579
RoundScaled(a, num, den) == MathRound(a * num, den)

\* img.onload, lines 516-543
ImgOnload ==
    /\ loading # << >>
    /\ LET l   == Head(loading)
           img == Images[l.img]
           newHeight == IF l.sizeMode = "height"
                        THEN Min(l.sizeValue, 100)
                        ELSE RoundScaled(Min(l.sizeValue, 100), img.height, img.width)
           newWidth  == IF l.sizeMode = "height"
                        THEN RoundScaled(Min(l.sizeValue, 100), img.width, img.height)
                        ELSE Min(l.sizeValue, 100)
           n0  == [Cur EXCEPT !.loading = Tail(loading),
                              !.originalImage = [kind |-> "img", img |-> l.img],
                              !.imageSet = TRUE,
                              !.dimensions = [width |-> newWidth, height |-> newHeight]]
       IN  IF PixelizeThrows(newWidth, newHeight)
           THEN Commit(n0)
           ELSE \E pixelized \in {pixelizeImage(heap, img, newWidth, newHeight)} :
                \E uniqueColors \in {countUniqueColors(pixelized.heap[pixelized.ref])} :
                    Commit([n0 EXCEPT !.heap = pixelized.heap,
                                      !.originalPixelData = pixelized.ref,
                                      !.maxColors = uniqueColors,
                                      !.colorCount = uniqueColors,
                                      !.isProcessing = FALSE])

\* the rows of a project's pixels, as the loops of lines 474-483 store them
RECURSIVE Flatten(_, _)
Flatten(rows, y) ==
    IF y > Len(rows) THEN << >>
    ELSE [x \in 1..Len(rows[y]) |->
             Pixel(StoreByte(rows[y][x][1]), StoreByte(rows[y][x][2]),
                   StoreByte(rows[y][x][3]), StoreByte(rows[y][x][4]))]
         \o Flatten(rows, y + 1)

\* the settings of lines 454-468 applied to n
RestoreSettings(n, settings) ==
    [n EXCEPT
       !.sizeMode     = IF settings.sizeMode # "" THEN settings.sizeMode ELSE @,
       !.sizeValue    = IF settings.sizeValue # 0 THEN settings.sizeValue ELSE @,
       !.colorCount   = IF settings.colorCount # 0 THEN settings.colorCount ELSE @,
       !.maxColors    = IF settings.maxColors # 0 THEN settings.maxColors ELSE @,
       !.contrast     = IF settings.contrast # 0 THEN settings.contrast ELSE @,
       !.dimensions   = IF settings.hasDimensions THEN settings.dimensions ELSE @,
       !.colorMapping = IF settings.hasColorMapping THEN settings.colorMapping ELSE @,
       !.mappingSet   = settings.hasColorMapping,
       !.storage      = IF settings.hasColorMapping THEN <<settings.colorMapping>> ELSE @]

\* handleJSONImport, lines 440-494, from the end of await file.text() on
ImportJSON(j) ==
    Idle /\
    LET projectData == Projects[j]
        n1 == IF projectData.hasSettings
              THEN RestoreSettings(Cur, projectData.settings) ELSE Cur
        complete == /\ projectData.width >= 1 /\ projectData.height >= 1
                    /\ Len(projectData.pixels) >= projectData.height
                    /\ \A y \in 1..projectData.height :
                          Len(projectData.pixels[y]) >= projectData.width
    IN  IF ~projectData.parses
        THEN Commit([Cur EXCEPT !.isProcessing = FALSE])
        ELSE IF ~projectData.pixelatorProject \/ ~projectData.hasPixels
        THEN Commit(Cur)
        ELSE IF ~complete
        THEN Commit([n1 EXCEPT !.isProcessing = FALSE])
        ELSE \E rows \in {[y \in 1..projectData.height |->
                               SubSeq(projectData.pixels[y], 1, projectData.width)]} :
             \E imageData \in {NewImageData(heap, Flatten(rows, 1),
                                            projectData.width, projectData.height)} :
                 Commit([n1 EXCEPT !.heap = imageData.heap,
                                   !.originalPixelData = imageData.ref,
                                   !.originalImage = [kind |-> "json", img |-> 0],
                                   !.imageSet = TRUE,
                                   !.isProcessing = FALSE])

\* handleSizeChange, lines 552-593, behind the button of lines 768-771
handleSizeChange ==
    /\ Idle
    /\ originalImage.kind # "none"
    /\ ~isProcessing
    /\ IF originalImage.kind = "json"
       THEN IF originalPixelData # NullRef
            THEN \E uniqueColors \in {countUniqueColors(heap[originalPixelData])} :
                     Commit([Cur EXCEPT !.maxColors = uniqueColors,
                                        !.colorCount = Min(capturedColorCount, uniqueColors)])
            ELSE Commit(Cur)
       ELSE /\ sizeValue \in SizeInputs
            /\ LET img == Images[originalImage.img]
                   newHeight == IF sizeMode = "height"
                                THEN Min(Max(sizeValue, 1), 100)
                                ELSE RoundScaled(Min(Max(sizeValue, 1), 100), img.height, img.width)
                   newWidth  == IF sizeMode = "height"
                                THEN RoundScaled(Min(Max(sizeValue, 1), 100), img.width, img.height)
                                ELSE Min(Max(sizeValue, 1), 100)
                   n0 == [Cur EXCEPT !.dimensions = [width |-> newWidth, height |-> newHeight]]
               IN  IF PixelizeThrows(newWidth, newHeight)
                   THEN Commit([n0 EXCEPT !.isProcessing = TRUE])
                   ELSE \E pixelized \in {pixelizeImage(heap, img, newWidth, newHeight)} :
                        \E uniqueColors \in {countUniqueColors(pixelized.heap[pixelized.ref])} :
                            Commit([n0 EXCEPT !.heap = pixelized.heap,
                                              !.originalPixelData = pixelized.ref,
                                              !.maxColors = uniqueColors,
                                              !.colorCount = uniqueColors])

\* the colour-count slider, lines 789-799 (shown when originalPixelData is set)
ChangeColorCount(newCount) ==
    /\ Idle
    /\ originalPixelData # NullRef
    /\ Len(timers) < MaxTimers
    /\ newCount >= 2 /\ newCount <= maxColors
    /\ newCount # colorCount
    /\ Commit([Cur EXCEPT !.colorCount = newCount, !.timers = Append(timers, CurSnap)])

\* the contrast slider, lines 813-824
ChangeContrast(newContrast) ==
    /\ Idle
    /\ originalPixelData # NullRef
    /\ Len(timers) < MaxTimers
    /\ newContrast \in SliderContrasts
    /\ newContrast # contrast
    /\ Commit([Cur EXCEPT !.contrast = newContrast, !.timers = Append(timers, CurSnap)])

\* the palette is on screen (line 854, line 165)
PaletteShown == Idle /\ pixelData # NullRef /\ ~isProcessing /\ currentColors # << >>

PaletteColors == { currentColors[i].color : i \in 1..Len(currentColors) }

\* handleColorChange, lines 129-140, with onColorMapping of lines 883-887
handleColorChange(n, originalColor, targetColor) ==
    LET newMapping ==
            IF targetColor # "" /\ targetColor # originalColor
            THEN [k \in DOMAIN colorMapping \cup {originalColor} |->
                     IF k = originalColor THEN targetColor ELSE colorMapping[k]]
            ELSE [k \in DOMAIN colorMapping \ {originalColor} |-> colorMapping[k]]
    IN  [n EXCEPT !.storage = <<newMapping>>, !.colorMapping = newMapping,
                  !.mappingSet = TRUE, !.timers = Append(n.timers, CurSnap)]

\* startEditing(color), the text typed, then finishEditing, lines 142-154
finishEditing(editingColor, newColor) ==
    /\ PaletteShown
    /\ editingColor \in PaletteColors
    /\ Len(timers) < MaxTimers
    /\ Commit(CallApplyEffects(handleColorChange(Cur, editingColor, newColor), CurSnap))

\* clearMapping, lines 161-163, behind the button of lines 257-265
clearMapping(color) ==
    /\ PaletteShown
    /\ color \in PaletteColors
    /\ Mapped(colorMapping, color)
    /\ Len(timers) < MaxTimers
    /\ Commit(handleColorChange(Cur, color, ""))

\* the button of lines 280-289
ClearAllMappings ==
    /\ PaletteShown
    /\ DOMAIN colorMapping # {}
    /\ Len(timers) < MaxTimers
    /\ Commit(CallApplyEffects([Cur EXCEPT !.storage = << >>,
                                           !.colorMapping = EmptyMapping,
                                           !.mappingSet = TRUE,
                                           !.timers = Append(timers, CurSnap)],
                               CurSnap))

\* a callback of setTimeout(() => applyEffects(), 100) runs
TimerFires ==
    /\ timers # << >>
    /\ Commit(CallApplyEffects([Cur EXCEPT !.timers = Tail(timers)], Head(timers)))

Next ==
    \/ \E m \in {"height", "width"} : SetSizeMode(m)
    \/ \E v \in SizeInputs : SetSizeValue(v)
    \/ \E i \in 1..Len(Images) : UploadImage(i)
    \/ UploadBrokenImage
    \/ ImgOnload
    \/ \E j \in 1..Len(Projects) : ImportJSON(j)
    \/ handleSizeChange
    \/ \E c \in ColorCountInputs : ChangeColorCount(c)
    \/ \E k \in ContrastInputs : ChangeContrast(k)
    \/ \E e \in EditInputs : \E t \in TargetInputs \cup {e} : finishEditing(e, t)
    \/ \E e \in DOMAIN colorMapping : clearMapping(e)
    \/ ClearAllMappings
    \/ TimerFires

Spec == Init /\ [][Next]_vars

\* Loading files and sizing only: the sliders and the palette are left alone.
\* The browser calls the onload of an image that decodes; nothing makes the
\* user act.
NextFiles ==
    \/ \E m \in {"height", "width"} : SetSizeMode(m)
    \/ \E v \in SizeInputs : SetSizeValue(v)
    \/ \E i \in 1..Len(Images) : UploadImage(i)
    \/ UploadBrokenImage
    \/ ImgOnload
    \/ \E j \in 1..Len(Projects) : ImportJSON(j)
    \/ handleSizeChange

\* The step of ImgOnload seen on the pending loads alone: the oldest pending
\* image is delivered.  ImgOnload is the only action that shortens loading, so
\* a step of NextFiles is an ImgOnload step exactly when it is one of these,
\* and one is possible exactly when a load is pending.
OnloadDelivered == loading # << >> /\ loading' = Tail(loading)

\* The browser delivers the onload event of every image that decodes.
SpecFair == Init /\ [][NextFiles]_vars /\ WF_loading(OnloadDelivered)

(***************************************************************************)
(* The pipeline on one loaded project.  A project file without settings    *)
(* was imported into the fresh application (handleJSONImport, lines        *)
(* 440-494): its pixels are the base buffer, every parameter has its       *)
(* initial value.  From there on the parameters change and the effect of   *)
(* lines 622-626 runs applyEffects with them.                              *)
(***************************************************************************)

\* the pixels of the imported projects
RunBuffers ==
    << ImageData(<< Pixel(0, 0, 0, 255),       Pixel(255, 255, 255, 255),
                    Pixel(100, 100, 100, 255), Pixel(200, 200, 200, 255) >>, 2, 2),
       ImageData(<< Pixel(0, 0, 0, 255), Pixel(255, 0, 0, 128), Pixel(1, 129, 13, 0),
                    Pixel(60, 130, 200, 255), Pixel(191, 255, 127, 7) >>, 1, 5),
       ImageData(<< Pixel(0, 0, 0, 255), Pixel(0, 0, 0, 9), Pixel(0, 0, 0, 255) >>, 3, 1),
       ImageData(<< Pixel(255, 0, 0, 255), Pixel(0, 0, 0, 77) >>, 2, 1) >>

Mapping1(k1, t1) == [k \in {k1} |-> t1]

Mapping2(k1, t1, k2, t2) == [k \in {k1, k2} |-> IF k = k1 THEN t1 ELSE t2]

\* the mappings the palette editor is brought to
RunMappings ==
    { EmptyMapping,
      Mapping1("#000000", "#ff0000"),
      Mapping2("#000000", "#ff0000", "#ff0000", "#0000FF"),
      Mapping2("#646464", "#00ff00", "#000000", "#ff0000"),
      Mapping1("#000000", "red"),
      Mapping1("#000000", "#12") }

\* the slider positions of the runs
RunContrasts == {5, 10, 11, 20}

RunColorCounts == {2, 4, 27, 256}

InitLoaded ==
    /\ \E b \in 1..Len(RunBuffers) : heap = [EmptyHeap EXCEPT ![1] = RunBuffers[b]]
    /\ originalImage = [kind |-> "json", img |-> 0]
    /\ pixelData = 1
    /\ originalPixelData = 1
    /\ dimensions = [width |-> 50, height |-> 50]
    /\ sizeMode = "height"
    /\ sizeValue = 50
    /\ isProcessing = FALSE
    /\ colorCount = 256
    /\ maxColors = 256
    /\ contrast = 10
    /\ storage = << >>
    /\ colorMapping = EmptyMapping
    /\ currentColors = getColorStats(heap[1])
    /\ timers = << >>
    /\ loading = << >>
    /\ capturedColorCount = 256
    /\ runs = << >>
    /\ memo = << >>
    /\ probe = << >>

\* The parameters become (newContrast, newCount, newMax, newMapping) and the
\* effect runs applyEffects with them (lines 622-626, 596-619).  runs keeps
\* what the run did; remember keeps the run before it in memo.
RunEffects(newContrast, newCount, newMax, newMapping, remember) ==
    /\ originalPixelData # NullRef
    /\ <<newContrast, newCount, newMax, newMapping>>
          # <<contrast, colorCount, maxColors, colorMapping>>
    /\ \E snap \in {[base |-> originalPixelData, contrast |-> newContrast,
                     colorCount |-> newCount, maxColors |-> newMax,
                     colorMapping |-> newMapping]} :
       \E res \in {applyEffects(heap, snap)} :
       \E roots \in {Roots(originalPixelData, res.pixelData, << >>)} :
           /\ runs' = <<RunRecord(heap, snap, res)>>
           /\ memo' = IF remember THEN runs ELSE memo
           /\ heap' = Compact(res.heap, roots)
           /\ originalPixelData' = Renamed(originalPixelData, roots)
           /\ pixelData' = Renamed(res.pixelData, roots)
           /\ currentColors' = res.currentColors
           /\ contrast' = newContrast
           /\ colorCount' = newCount
           /\ maxColors' = newMax
           /\ colorMapping' = newMapping
           /\ UNCHANGED <<originalImage, dimensions, sizeMode, sizeValue, isProcessing,
                          storage, timers, loading, capturedColorCount, probe>>

\* maxColors is 256 (what the import left) or the count that handleSizeChange
\* sets for a project (line 562)
NextRun ==
    \E k \in RunContrasts : \E c \in RunColorCounts :
    \E m \in {256, countUniqueColors(heap[originalPixelData])} :
    \E mp \in RunMappings :
        RunEffects(k, c, m, mp, FALSE)

SpecRun == InitLoaded /\ [][NextRun]_vars

\* Runs that come back to parameters used before
NextRerun ==
    \E k \in {5, 10} : \E c \in {8, 256} :
    \E mp \in {EmptyMapping, Mapping1("#000000", "#ff0000")} :
    \E remember \in BOOLEAN :
        RunEffects(k, c, 256, mp, remember)

SpecRerun == InitLoaded /\ [][NextRerun]_vars

(***************************************************************************)
(* The stages on one pixel: every channel value, every slider position of  *)
(* the contrast, a target colour count for every levels value from 1 to 22 *)
(***************************************************************************)

\* 2 and 3 give levels 1; l^3 gives levels l; 10000 (a 100 x 100 image of
\* distinct colours) gives levels 22
TargetColorInputs == {2, 3, 4, 256, 10000} \cup { l * l * l : l \in 2..21 }

ProbePixel(v) == Pixel(v, 255 - v, (v + 128) % 256, v)

\* applyContrast(pixelData, contrast) on a buffer of one pixel, and once more
\* on what it returned
ProbeContrast(v, k) ==
    /\ probe = << >>
    /\ \E src \in {NewImageData(EmptyHeap, <<ProbePixel(v)>>, 1, 1)} :
       \E res \in {applyContrast(src.heap, src.ref, k)} :
       \E res2 \in {applyContrast(res.heap, res.ref, k)} :
           probe' = <<[stage |-> "applyContrast", param |-> k,
                       in    |-> src.heap[src.ref].data[1],
                       out   |-> res.heap[res.ref].data[1],
                       again |-> res2.heap[res2.ref].data[1]]>>
    /\ UNCHANGED <<heap, originalImage, pixelData, originalPixelData, dimensions,
                   sizeMode, sizeValue, isProcessing, colorCount, maxColors, contrast,
                   colorMapping, currentColors, storage, timers, loading,
                   capturedColorCount, runs, memo>>

\* quantizeColors(pixelData, targetColors) on a buffer of one pixel, and once
\* more on what it returned
ProbeQuantize(v, t) ==
    /\ probe = << >>
    /\ \E src \in {NewImageData(EmptyHeap, <<ProbePixel(v)>>, 1, 1)} :
       \E res \in {quantizeColors(src.heap, src.ref, t)} :
       \E res2 \in {quantizeColors(res.heap, res.ref, t)} :
           probe' = <<[stage |-> "quantizeColors", param |-> t,
                       in    |-> src.heap[src.ref].data[1],
                       out   |-> res.heap[res.ref].data[1],
                       again |-> res2.heap[res2.ref].data[1]]>>
    /\ UNCHANGED <<heap, originalImage, pixelData, originalPixelData, dimensions,
                   sizeMode, sizeValue, isProcessing, colorCount, maxColors, contrast,
                   colorMapping, currentColors, storage, timers, loading,
                   capturedColorCount, runs, memo>>

\* the longest buffer given to getColorStats
MaxStatsLen == 4

\* the pixels of those buffers: a colour with two alphas, two more colours
StatsPixels == { Pixel(0, 0, 0, 255), Pixel(0, 0, 0, 0),
                 Pixel(255, 0, 0, 255), Pixel(1, 2, 3, 255) }

\* getColorStats(pixelData) and countUniqueColors(pixelData) on a buffer of
\* one row
ProbeStats(data) ==
    /\ probe = << >>
    /\ \E src \in {NewImageData(EmptyHeap, data, Len(data), 1)} :
           probe' = <<[stage |-> "getColorStats", param |-> 0,
                       in    |-> src.heap[src.ref],
                       out   |-> getColorStats(src.heap[src.ref]),
                       again |-> countUniqueColors(src.heap[src.ref])]>>
    /\ UNCHANGED <<heap, originalImage, pixelData, originalPixelData, dimensions,
                   sizeMode, sizeValue, isProcessing, colorCount, maxColors, contrast,
                   colorMapping, currentColors, storage, timers, loading,
                   capturedColorCount, runs, memo>>

NextStage ==
    \/ \E v \in 0..255 : \E k \in SliderContrasts : ProbeContrast(v, k)
    \/ \E v \in 0..255 : \E t \in TargetColorInputs : ProbeQuantize(v, t)
    \/ \E n \in 1..MaxStatsLen : \E data \in [1..n -> StatsPixels] : ProbeStats(data)

SpecStage == Init /\ [][NextStage]_vars

(***************************************************************************)
(* The properties.  Their vocabulary first: the colour key of a pixel, a   *)
(* target that is # and six hexadecimal digits, and the colour it names.   *)
(***************************************************************************)

PixelKey(p) == ColorKey(p[1], p[2], p[3])

RGB(p) == <<p[1], p[2], p[3]>>

WellFormedTarget(t) ==
    /\ Len(t) = 7
    /\ CharAt(t, 1) = "#"
    /\ \A i \in 2..7 : HexVal(CharAt(t, i)) # NaN

HexPair(t, i) == 16 * HexVal(CharAt(t, i)) + HexVal(CharAt(t, i + 1))

TargetRGB(t) == <<HexPair(t, 2), HexPair(t, 4), HexPair(t, 6)>>

WellFormedMapping(m) == \A k \in DOMAIN m : WellFormedTarget(m[k])

SameParameters(a, b) ==
    /\ a.base = b.base
    /\ a.contrast = b.contrast
    /\ a.colorCount = b.colorCount
    /\ a.maxColors = b.maxColors
    /\ a.colorMapping = b.colorMapping

\* the last stage of a run is the remapper
RemapStep(r) == r.steps[Len(r.steps)]

\* C1: every run of applyEffects starts from the base buffer, and two runs
\* with the same parameters on the same base buffer give the same output
\* buffer and the same palette, whatever ran in between.
C1_RunsFromBaseBuffer ==
    /\ runs # << >> => runs[1].steps[1].inBefore = runs[1].base
    /\ (runs # << >> /\ memo # << >> /\ SameParameters(runs[1], memo[1]))
          => /\ runs[1].out = memo[1].out
             /\ runs[1].currentColors = memo[1].currentColors

\* C1, its case: a run repeats the parameters of an earlier run, other
\* parameters were run in between, and the output is not the base buffer.
C1_Rerun ==
    /\ runs # << >> /\ memo # << >>
    /\ SameParameters(runs[1], memo[1])
    /\ runs[1].contrast # 10
    /\ runs[1].out # runs[1].base
    /\ runs[1].out = memo[1].out

\* C2: a run leaves the pixel data of the base buffer and the entries of the
\* mapping as they were, and every stage writes only to objects it created:
\* its input holds afterwards what it held before.
C2_RunLeavesInputsUnchanged ==
    runs # << >> =>
        LET r == runs[1]
        IN  /\ r.baseAfter = r.base
            /\ heap[originalPixelData] = r.base
            /\ r.mappingAfter = r.colorMapping
            /\ colorMapping = r.colorMapping
            /\ \A i \in 1..Len(r.steps) :
                  /\ r.steps[i].ownWrites
                  /\ r.steps[i].inAfter = r.steps[i].inBefore

\* C2, its case: a run of all three stages, each returning other pixels than
\* it was given.
C2_ThreeStagesWrote ==
    /\ runs # << >>
    /\ Len(runs[1].steps) = 3
    /\ \A i \in 1..3 : /\ runs[1].steps[i].out.data # runs[1].steps[i].inBefore.data
                       /\ ~runs[1].steps[i].aliased

C3_AfterContrast(r, i) ==
    IF r.contrast # 10 THEN ContrastPixel(r.base.data[i], r.contrast) ELSE r.base.data[i]

C3_AfterQuantize(r, i) ==
    IF r.colorCount < r.maxColors
    THEN QuantizePixel(C3_AfterContrast(r, i), r.colorCount)
    ELSE C3_AfterContrast(r, i)

C3_StageNames(r) ==
    (IF r.contrast # 10 THEN <<"contrast">> ELSE << >>)
    \o (IF r.colorCount < r.maxColors THEN <<"quantize">> ELSE << >>)
    \o <<"remap">>

\* C3: the stages run in the order contrast, quantization, remapping, each on
\* the output of the one before; the remapper applies the entry of key K to a
\* pixel exactly when K is the pixel's colour after contrast and quantization;
\* the palette is the analysis of the remapped buffer.
C3_StageOrder ==
    runs # << >> =>
        LET r == runs[1]
            n == Len(r.steps)
        IN  /\ [i \in 1..n |-> r.steps[i].stage] = C3_StageNames(r)
            /\ r.steps[1].inBefore = r.base
            /\ \A i \in 1..(n - 1) : r.steps[i + 1].inBefore = r.steps[i].out
            /\ r.out = r.steps[n].out
            /\ \A i \in 1..Len(r.base.data) :
                  LET q == C3_AfterQuantize(r, i)
                  IN  /\ r.steps[n].inBefore.data[i] = q
                      /\ IF PixelKey(q) \in DOMAIN r.colorMapping
                         THEN r.out.data[i] = TargetPixel(r.colorMapping[PixelKey(q)], q[4])
                         ELSE r.out.data[i] = q
            /\ r.currentColors = getColorStats(r.out)

\* C3, its case: all three stages ran, and a pixel whose base colour is a key
\* of the mapping got the target of another key, the one of its colour after
\* quantization.
C3_RemappedAfterQuantize ==
    /\ runs # << >>
    /\ Len(runs[1].steps) = 3
    /\ \E i \in 1..Len(runs[1].base.data) :
          LET r  == runs[1]
              kb == PixelKey(r.base.data[i])
              kq == PixelKey(C3_AfterQuantize(r, i))
          IN  /\ kb \in DOMAIN r.colorMapping
              /\ kq \in DOMAIN r.colorMapping
              /\ r.colorMapping[kb] # r.colorMapping[kq]
              /\ r.out.data[i] = TargetPixel(r.colorMapping[kq], r.base.data[i][4])

\* C4: in every reachable state with a base buffer, maxColors is the number
\* of distinct (R,G,B) colours of originalPixelData.
C4_MaxColorsIsDistinctCount ==
    originalPixelData # NullRef => maxColors = countUniqueColors(heap[originalPixelData])

\* C5: for every target colour count >= 2 the quantizer uses levels >= 2, and
\* with the counts 2 and 3 every channel snaps to 0 (below 128) or 255.
C5_LevelsAtLeastTwo ==
    (probe # << >> /\ probe[1].stage = "quantizeColors" /\ probe[1].param >= 2)
       => /\ Levels(probe[1].param) >= 2
          /\ probe[1].param \in {2, 3} =>
                \A c \in 1..3 : probe[1].out[c] = IF probe[1].in[c] < 128 THEN 0 ELSE 255

\* (in - 128) * factor + 128 in tenths, clamped to 0..255
C6_Clamped(v, k) ==
    LET x == (v - 128) * k + 1280
    IN  IF x < 0 THEN 0 ELSE IF x > 2550 THEN 2550 ELSE x

\* the nearest integer, an exact half going to the even one; the double
\* products of the factor 1.1 with the inputs 13 and 33 lie below the halves
\* 1.5 and 23.5
C6_Nearest(v, k) ==
    LET y == C6_Clamped(v, k)
        f == y \div 10
        r == y % 10
    IN  IF r < 5 THEN f
        ELSE IF r > 5 THEN f + 1
        ELSE IF k = 11 /\ v \in {13, 33} THEN f
        ELSE IF f % 2 = 0 THEN f ELSE f + 1

\* the nearest integer, an exact half going up
C6_HalfUp(v, k) ==
    LET y == C6_Clamped(v, k)
    IN  IF y % 10 >= 5 THEN (y \div 10) + 1 ELSE y \div 10

\* C6, as the code has it: for every channel value and every factor 0.5 ..
\* 2.0, applyContrast gives clamp(0, 255, (in - 128) * factor + 128) rounded
\* to the nearest integer, an exact half rounded to the even integer (with
\* the factor 1.1 the inputs 13 and 33 give 1 and 23).
C6_ContrastHalfToEven ==
    (probe # << >> /\ probe[1].stage = "applyContrast")
       => \A c \in 1..3 : probe[1].out[c] = C6_Nearest(probe[1].in[c], probe[1].param)

\* C6, its case: an exact half whose even neighbour is the lower one
C6_HalfRoundedDown ==
    /\ probe # << >>
    /\ probe[1].stage = "applyContrast"
    /\ C6_Clamped(probe[1].in[1], probe[1].param) % 10 = 5
    /\ probe[1].param \in {5, 15}
    /\ probe[1].out[1] % 2 = 0
    /\ probe[1].out[1] * 10 < C6_Clamped(probe[1].in[1], probe[1].param)

\* C6 as stated: applyContrast gives clamp(0, 255, round((in - 128) * factor
\* + 128)) with exact halves rounded up.
C6_ContrastHalfUp ==
    (probe # << >> /\ probe[1].stage = "applyContrast")
       => \A c \in 1..3 : probe[1].out[c] = C6_HalfUp(probe[1].in[c], probe[1].param)

\* C7: every stage, and so the whole run, returns a buffer of as many pixels
\* in which every pixel has the alpha of the same pixel of the input.
C7_AlphaPreserved ==
    runs # << >> =>
        LET r == runs[1]
        IN  /\ \A s \in 1..Len(r.steps) :
                  /\ Len(r.steps[s].out.data) = Len(r.steps[s].inBefore.data)
                  /\ \A i \in 1..Len(r.steps[s].inBefore.data) :
                        r.steps[s].out.data[i][4] = r.steps[s].inBefore.data[i][4]
            /\ Len(r.out.data) = Len(r.base.data)
            /\ \A i \in 1..Len(r.base.data) : r.out.data[i][4] = r.base.data[i][4]

\* C7, its case: all three stages ran on a buffer with a pixel that is not
\* opaque, and that pixel's colour changed in each of them.
C7_TranslucentPixelChanged ==
    /\ runs # << >>
    /\ Len(runs[1].steps) = 3
    /\ \E i \in 1..Len(runs[1].base.data) :
          /\ runs[1].base.data[i][4] \notin {0, 255}
          /\ \A s \in 1..3 :
                RGB(runs[1].steps[s].out.data[i]) # RGB(runs[1].steps[s].inBefore.data[i])

\* C8: with well-formed targets, every pixel of the remapper's output has
\* the target colour of its input colour's key if that key is in the
\* mapping, and the input colour otherwise: one lookup, no chaining; the
\* empty mapping changes nothing, and {A -> B} turns a buffer of A into as
\* many pixels of B.
C8_SingleLookup ==
    (runs # << >> /\ WellFormedMapping(runs[1].colorMapping)) =>
        LET s == RemapStep(runs[1])
            m == runs[1].colorMapping
        IN  /\ s.stage = "remap"
            /\ Len(s.out.data) = Len(s.inBefore.data)
            /\ \A i \in 1..Len(s.inBefore.data) :
                  LET p == s.inBefore.data[i]
                  IN  /\ RGB(s.out.data[i]) =
                            IF PixelKey(p) \in DOMAIN m
                            THEN TargetRGB(m[PixelKey(p)]) ELSE RGB(p)
                      /\ s.out.data[i][4] = p[4]
            /\ DOMAIN m = {} => s.out = s.inBefore

\* C8, its case: under {A -> B, B -> C} a pixel of colour A came out as B.
C8_NoChaining ==
    /\ runs # << >>
    /\ WellFormedMapping(runs[1].colorMapping)
    /\ \E i \in 1..Len(RemapStep(runs[1]).inBefore.data) :
          LET s == RemapStep(runs[1])
              m == runs[1].colorMapping
              a == PixelKey(s.inBefore.data[i])
              b == PixelKey(s.out.data[i])
          IN  /\ a \in DOMAIN m
              /\ b \in DOMAIN m
              /\ b # a
              /\ RGB(s.out.data[i]) = TargetRGB(m[a])
              /\ RGB(s.out.data[i]) # TargetRGB(m[b])

\* C9: a pixel whose colour is the key of an entry with a target that is not
\* # and six hexadecimal digits keeps its (R,G,B).
C9_MalformedTargetIsAbsent ==
    runs # << >> =>
        LET s == RemapStep(runs[1])
            m == runs[1].colorMapping
        IN  \A i \in 1..Len(s.inBefore.data) :
                LET p == s.inBefore.data[i]
                IN  (PixelKey(p) \in DOMAIN m /\ ~WellFormedTarget(m[PixelKey(p)]))
                       => /\ i \in 1..Len(s.out.data)
                          /\ RGB(s.out.data[i]) = RGB(p)

\* C10: quantizeColors applied to the output of quantizeColors with the same
\* target colour count returns that output, for every channel value and
\* every levels value up to 22.
C10_QuantizeIdempotent ==
    (probe # << >> /\ probe[1].stage = "quantizeColors")
       => probe[1].again = probe[1].out

\* C10, its case: levels = 22, and a channel moved to a grid value that is
\* not a whole number (k * 255 / 21 stored as a byte).
C10_SnappedToRoundedGrid ==
    /\ probe # << >>
    /\ probe[1].stage = "quantizeColors"
    /\ Levels(probe[1].param) = 22
    /\ probe[1].out[1] # probe[1].in[1]
    /\ (probe[1].out[1] * 21) % 255 # 0
    /\ probe[1].again = probe[1].out

\* the number of pixels of a buffer with the colour key k
PixelsOf(buf, k) == Cardinality({ i \in 1..Len(buf.data) : PixelKey(buf.data[i]) = k })

\* the first pixel of a buffer with the colour key k, in row-major order
FirstSeen(buf, k) ==
    CHOOSE i \in 1..Len(buf.data) :
        /\ PixelKey(buf.data[i]) = k
        /\ \A j \in 1..(i - 1) : PixelKey(buf.data[j]) # k

RECURSIVE SumCounts(_, _)
SumCounts(palette, i) ==
    IF i > Len(palette) THEN 0 ELSE palette[i].count + SumCounts(palette, i + 1)

\* C11: the palette of a buffer has one entry for each distinct (R,G,B) of
\* it, alpha ignored, with the number of its pixels (at least 1) as count;
\* the counts add up to width * height, and there are countUniqueColors
\* entries.
C11_PaletteCountsPixels ==
    (probe # << >> /\ probe[1].stage = "getColorStats") =>
        LET buf     == probe[1].in
            palette == probe[1].out
        IN  /\ { palette[i].color : i \in 1..Len(palette) }
                  = { PixelKey(buf.data[i]) : i \in 1..Len(buf.data) }
            /\ \A i, j \in 1..Len(palette) : palette[i].color = palette[j].color => i = j
            /\ \A i \in 1..Len(palette) :
                  /\ palette[i].count >= 1
                  /\ palette[i].count = PixelsOf(buf, palette[i].color)
            /\ SumCounts(palette, 1) = buf.width * buf.height
            /\ Len(palette) = probe[1].again

\* C11, its case: a colour that occurs with two alphas has one entry, beside
\* the entry of another colour.
C11_TwoAlphasOneEntry ==
    /\ probe # << >>
    /\ probe[1].stage = "getColorStats"
    /\ Len(probe[1].out) = 2
    /\ \E i, j \in 1..Len(probe[1].in.data) :
          /\ RGB(probe[1].in.data[i]) = RGB(probe[1].in.data[j])
          /\ probe[1].in.data[i][4] # probe[1].in.data[j][4]

\* C12: the entries of the palette are in the order of non-increasing count,
\* and two colours of the same count in the order in which the scan of the
\* pixels first met them.
C12_PaletteOrder ==
    (probe # << >> /\ probe[1].stage = "getColorStats") =>
        LET buf     == probe[1].in
            palette == probe[1].out
        IN  \A i, j \in 1..Len(palette) :
                i < j => /\ palette[i].count >= palette[j].count
                         /\ palette[i].count = palette[j].count
                               => FirstSeen(buf, palette[i].color)
                                     < FirstSeen(buf, palette[j].color)

\* C12, its case: a colour met later has the largest count and comes first,
\* ahead of two colours of equal count in the order they were met.
C12_TieAfterReorder ==
    /\ probe # << >>
    /\ probe[1].stage = "getColorStats"
    /\ Len(probe[1].out) = 3
    /\ probe[1].out[2].color = PixelKey(probe[1].in.data[1])
    /\ probe[1].out[1].count > probe[1].out[2].count
    /\ probe[1].out[2].count = probe[1].out[3].count

\* a run on the 2 x 2 buffer (0,0,0), (255,255,255), (100,100,100),
\* (200,200,200) with contrast 1.0, colour count 4 and the empty mapping
C13_ExampleRun ==
    /\ runs # << >>
    /\ runs[1].base = RunBuffers[1]
    /\ runs[1].contrast = 10
    /\ runs[1].colorCount = 4
    /\ runs[1].colorMapping = EmptyMapping

C13_Snapped ==
    /\ runs[1].out.data = << Pixel(0, 0, 0, 255), Pixel(255, 255, 255, 255),
                             Pixel(0, 0, 0, 255), Pixel(255, 255, 255, 255) >>
    /\ runs[1].currentColors = << [color |-> "#000000", count |-> 2],
                                  [color |-> "#ffffff", count |-> 2] >>

\* C13, as the code has it: the example run gives (0,0,0), (255,255,255),
\* (0,0,0), (255,255,255) and the palette #000000: 2, #ffffff: 2 when
\* maxColors is above 4; when maxColors is 4, the number of colours of the
\* buffer, quantization is skipped: the output is the base buffer and the
\* palette has its four colours, each with count 1, in the order of the
\* pixels.
C13_ExampleSkipsAtMaxColors ==
    C13_ExampleRun =>
        IF runs[1].maxColors > 4
        THEN C13_Snapped
        ELSE /\ runs[1].out = runs[1].base
             /\ runs[1].currentColors = << [color |-> "#000000", count |-> 1],
                                           [color |-> "#ffffff", count |-> 1],
                                           [color |-> "#646464", count |-> 1],
                                           [color |-> "#c8c8c8", count |-> 1] >>

\* C13, its case: the example run with maxColors = 4 returned the base
\* buffer.
C13_ExampleSkipped ==
    /\ C13_ExampleRun
    /\ runs[1].maxColors = countUniqueColors(runs[1].base)
    /\ runs[1].out = runs[1].base
    /\ Len(runs[1].currentColors) = 4

\* C13 as stated: the example run gives (0,0,0), (255,255,255), (0,0,0),
\* (255,255,255) and the palette #000000: 2, #ffffff: 2.
C13_ExampleSnaps == C13_ExampleRun => C13_Snapped

\* C14: every call of pixelizeImage, from img.onload of handleFileUpload and
\* from handleSizeChange, has targetWidth >= 1 and targetHeight >= 1 (the
\* two numbers are the ones setDimensions was given just before, lines 531
\* and 582).
C14_TargetDimensionsPositive ==
    [][(ImgOnload \/ (handleSizeChange /\ originalImage.kind = "img"))
          => (dimensions'.width >= 1 /\ dimensions'.height >= 1)]_vars

\* C15: when no timer callback and no image load is pending, the displayed
\* buffer and the palette are what applyEffects gives for the current
\* originalPixelData, contrast, colorCount, maxColors and colorMapping.
C15_DisplayedIsCurrentOutput ==
    (timers = << >> /\ loading = << >> /\ originalPixelData # NullRef) =>
        \E res \in {applyEffects(heap, CurSnap)} :
            /\ pixelData # NullRef
            /\ heap[pixelData] = res.heap[res.pixelData]
            /\ currentColors = res.currentColors

\* the import of Projects[j] does not get to setOriginalPixelData: the text
\* is not JSON, the file is rejected at line 446, or the loop of lines
\* 474-483 reads a pixel that is not there
C16_Fails(j) ==
    LET projectData == Projects[j]
    IN  \/ ~projectData.parses
        \/ ~projectData.pixelatorProject
        \/ ~projectData.hasPixels
        \/ projectData.width < 1
        \/ projectData.height < 1
        \/ Len(projectData.pixels) < projectData.height
        \/ \E y \in 1..projectData.height :
              Len(projectData.pixels[y]) < projectData.width

\* C16: an import that fails changes none of sizeMode, sizeValue, colorCount,
\* maxColors, contrast, dimensions, colorMapping, the persisted mapping,
\* originalPixelData and originalImage, and isProcessing is false after it.
C16_FailedImportChangesNothing ==
    [][\A j \in 1..Len(Projects) :
          (ImportJSON(j) /\ C16_Fails(j)) =>
              /\ UNCHANGED <<sizeMode, sizeValue, colorCount, maxColors, contrast,
                             dimensions, colorMapping, storage, originalPixelData,
                             originalImage>>
              /\ originalPixelData # NullRef
                    => heap'[originalPixelData'] = heap[originalPixelData]
              /\ isProcessing' = FALSE]_vars

\* C17: whenever isProcessing is true (handleFileUpload set it for an image
\* file), it is false again later.
C17_ProcessingEnds == isProcessing ~> ~isProcessing

====
